---- MODULE Spec2Model ----
(***************************************************************************)
(* A state-machine model of the ck-cashbook Django application (book/):    *)
(* the period resolver (utils.py), the permission gate (permissions.py),   *)
(* the forms (forms.py), the relational rows (models.py) and the request   *)
(* handlers (views.py; the second, later definitions of each view are the  *)
(* ones Python binds, lines 454-841, add_member at 407-450).               *)
(***************************************************************************)
EXTENDS Integers, Sequences, FiniteSets, Bags, TLC

VARIABLES
    today,          \* the value of date.today()
    resolved,       \* the last call of resolve_period and what it returned
    users,          \* auth_user rows: a set of [username, email]
    session,        \* per browser session: the authenticated user and 'biz_id'
    businesses,     \* Business rows, in id order (id = index): [name]
    memberships,    \* Membership rows, a bag of [user, business, role]
    categories,     \* TransactionCategory rows, in id order: [business, name, kind]
    transactions,   \* Transaction rows, in id order
    submitted,      \* history: for each Transaction row, the form data as posted
    resp,           \* the last request: handler, session, inputs and response
    inflight        \* add_member requests served concurrently, and how far
                    \* each has run

vars == <<today, resolved, users, session, businesses, memberships,
          categories, transactions, submitted, resp, inflight>>

dbvars == <<users, businesses, memberships, categories, transactions, submitted>>

-----------------------------------------------------------------------------
(* Calendar dates: datetime.date as a record of year, month, day.          *)

\* the years the clock of the period specification ranges over
FirstYear == 2095
NumYears == 6

Years == FirstYear .. (FirstYear + NumYears - 1)

\* None, where the code returns or passes None for a date
NoDate == [year |-> 0, month |-> 0, day |-> 0]

IsLeap(y) == (y % 4 = 0 /\ y % 100 # 0) \/ y % 400 = 0

DaysInMonth(y, m) ==
    IF m = 2 THEN (IF IsLeap(y) THEN 29 ELSE 28)
    ELSE IF m \in {4, 6, 9, 11} THEN 30 ELSE 31

MkDate(y, m, d) == [year |-> y, month |-> m, day |-> d]

AllDates ==
    {MkDate(y, m, d) : y \in Years, m \in 1..12, d \in 1..31} \ 
    {dt \in {MkDate(y, m, d) : y \in Years, m \in 1..12, d \in 29..31} :
        dt.day > DaysInMonth(dt.year, dt.month)}

\* date ordering, as the comparison of datetime.date values (and of their
\* ISO texts "YYYY-MM-DD", which the ORM filters compare as dates)
DateKey(dt) == dt.year * 10000 + dt.month * 100 + dt.day
DateLE(a, b) == DateKey(a) <= DateKey(b)

\* d - timedelta(days=1)
MinusOneDay(dt) ==
    IF dt.day > 1 THEN [dt EXCEPT !.day = dt.day - 1]
    ELSE IF dt.month > 1
         THEN MkDate(dt.year, dt.month - 1, DaysInMonth(dt.year, dt.month - 1))
         ELSE MkDate(dt.year - 1, 12, 31)

\* date.toordinal() relative to 1 January of FirstYear - 1: the number of
\* days from that day, counted independently of MinusOneDay
RECURSIVE DaysBeforeYear(_)
DaysBeforeYear(y) ==
    IF y < FirstYear THEN 0
    ELSE DaysBeforeYear(y - 1) + (IF IsLeap(y - 1) THEN 366 ELSE 365)

RECURSIVE DaysBeforeMonth(_, _)
DaysBeforeMonth(y, m) ==
    IF m = 1 THEN 0 ELSE DaysBeforeMonth(y, m - 1) + DaysInMonth(y, m - 1)

Ordinal(dt) == DaysBeforeYear(dt.year) + DaysBeforeMonth(dt.year, dt.month) + dt.day

-----------------------------------------------------------------------------
(* utils.py: resolve_period                                                *)

Periods == {"this_month", "last_month", "this_year", "custom", ""}

\* a resolver that keeps the year when December rolls over
resolve_period_same_year(period, now) ==
    IF period = "this_month" THEN
        LET start == [now EXCEPT !.day = 1]
            end == IF start.month = 12
                   THEN MinusOneDay([start EXCEPT !.month = 1, !.day = 1])
                   ELSE MinusOneDay([start EXCEPT !.month = start.month + 1,
                                                  !.day = 1])
        IN [start |-> start, end |-> end]
    ELSE [start |-> NoDate, end |-> NoDate]

\* a resolver whose last month ends the day before today
resolve_period_from_today(period, now) ==
    IF period = "last_month" THEN
        LET end == MinusOneDay(now)
            start == [end EXCEPT !.day = 1]
        IN [start |-> start, end |-> end]
    ELSE IF period = "this_month" THEN
        [start |-> [now EXCEPT !.day = 1], end |-> now]
    ELSE [start |-> NoDate, end |-> NoDate]

resolve_period(period, now) ==
    IF period = "this_month" THEN
        LET start == [now EXCEPT !.day = 1]
            end == IF start.month = 12
                   THEN MinusOneDay([start EXCEPT !.year = start.year + 1,
                                                  !.month = 1, !.day = 1])
                   ELSE MinusOneDay([start EXCEPT !.month = start.month + 1,
                                                  !.day = 1])
        IN [start |-> start, end |-> end]
    ELSE IF period = "last_month" THEN
        LET first_this == [now EXCEPT !.day = 1]
            end == MinusOneDay(first_this)
            start == [end EXCEPT !.day = 1]
        IN [start |-> start, end |-> end]
    ELSE IF period = "this_year" THEN
        [start |-> MkDate(now.year, 1, 1), end |-> MkDate(now.year, 12, 31)]
    ELSE [start |-> NoDate, end |-> NoDate]


-----------------------------------------------------------------------------
(* models.py: the rows. Text columns hold sequences of characters.         *)

Users == {"u1", "u2", "u3"}
NoUser == "AnonymousUser"

\* the address each person signs up with; "u3" may also try the address of "u1"
EmailOf(u) == IF u = "u1" THEN "e1" ELSE IF u = "u2" THEN "e2" ELSE "e3"
Emails == {"e1", "e2", "e3"}

Sessions == {"s1"}
NoSession == [user |-> NoUser, biz_id |-> 0]

Roles == {"OWNER", "ADMIN", "STAFF"}
TxKinds == {"CASH_IN", "CASH_OUT"}
CategoryKinds == {"INCOME", "EXPENSE"}

\* how many Business, TransactionCategory and Transaction rows a run creates
MaxBusinesses == 2
MaxCategories == 2
MaxTransactions == 2

EmptyDb ==
    /\ users = {}
    /\ businesses = <<>>
    /\ memberships = EmptyBag
    /\ categories = <<>>
    /\ transactions = <<>>
    /\ submitted = <<>>

BusinessIds == 1..Len(businesses)
CategoryIds == 1..Len(categories)
TransactionIds == 1..Len(transactions)

MembershipRow(u, b, role) == [user |-> u, business |-> b, role |-> role]

\* Membership.objects.filter(user=u, business_id=b): the distinct rows
MembershipRows(u, b) ==
    {r \in BagToSet(memberships) : r.user = u /\ r.business = b}

\* .exists()
MembershipExists(u, b) == MembershipRows(u, b) # {}

\* a lookup that takes every caller for an OWNER
RoleOf_owner(u, b) == "OWNER"

\* .first() / .get() on that filter: the role of the row; "" when there is
\* none (unique_together leaves at most one row to find)
RoleOf(u, b) ==
    IF MembershipExists(u, b)
    THEN (CHOOSE r \in MembershipRows(u, b) : TRUE).role
    ELSE ""

\* a create that reports success and inserts nothing
Membership_create_lost(u, b, role) == [ok |-> TRUE, rows |-> memberships]

\* a table without the constraint: the row is always inserted
Membership_create_unconstrained(u, b, role) ==
    [ok |-> TRUE, rows |-> memberships (+) SetToBag({MembershipRow(u, b, role)})]

\* Membership.objects.create under unique_together = ('user', 'business'):
\* the insert fails with IntegrityError when the pair is already there
Membership_create(u, b, role) ==
    IF MembershipExists(u, b)
    THEN [ok |-> FALSE, rows |-> memberships]
    ELSE [ok |-> TRUE,
          rows |-> memberships (+) SetToBag({MembershipRow(u, b, role)})]

-----------------------------------------------------------------------------
(* Responses. status is one of                                             *)
(*   "login"     302 to the login page (not authenticated)                 *)
(*   "forbidden" HttpResponseForbidden                                     *)
(*   "redirect"  302 to the view named in msg's companion field `to`       *)
(*   "page"      200, a rendered page (msg holds a flashed message, if any)*)
(*   "json"      200, a JSON success body                                  *)
(*   "file"      200, an attachment (the workbook, the PDF)                *)
(*   "invalid"   the form did not validate (page with errors, or JSON 400) *)
(*   "405"       JSON 'Invalid request method'                             *)
(*   "error"     an uncaught exception (500)                               *)

NoResp == [op |-> "none", sess |-> "none", status |-> "none", to |-> "",
           msg |-> "", req |-> <<>>, out |-> <<>>]

\* requests are served one at a time: a handler runs when no response is in
\* flight
Idle == resp = NoResp

Resp(op, s, status, to, msg, req, out) ==
    [op |-> op, sess |-> s, status |-> status, to |-> to, msg |-> msg,
     req |-> req, out |-> out]

\* the worker threads that may serve add_member side by side, and the state
\* in which none of them holds a request
Workers == {"w1", "w2"}
NoRequest == [stage |-> "free", sess |-> "none", user |-> "", business |-> 0,
              role |-> "", status |-> "", msg |-> ""]
NoRequests == [w \in Workers |-> NoRequest]

-----------------------------------------------------------------------------
(* permissions.py: require_membership, and django's login_required         *)

Authenticated(s) == session[s].user # NoUser

\* "pass", "login", or the text of the HttpResponseForbidden
require_membership(s) ==
    IF ~Authenticated(s) THEN "login"
    ELSE IF session[s].biz_id = 0 THEN "Select a business first."
    ELSE IF ~MembershipExists(session[s].user, session[s].biz_id)
         THEN "No membership for this business."
    ELSE "pass"

\* a gate that sends every refused caller to the login flow
Refused_to_login(op, s, gate, req) ==
    Resp(op, s, "login", "login", "", req, <<>>)

\* the response of a handler the gate refuses
Refused(op, s, gate, req) ==
    IF gate = "login" THEN Resp(op, s, "login", "login", "", req, <<>>)
    ELSE Resp(op, s, "forbidden", "", gate, req, <<>>)

-----------------------------------------------------------------------------
(* views.py: signup, custom_logout, and the login flow                     *)

Methods == {"GET", "POST"}

Usernames == {u.username : u \in users}
UsersWithEmail(e) == {u \in users : u.email = e}

\* CustomUserCreationForm.is_valid: the username and the e-mail are new
\* (the two password fields are taken to agree)
SignupFormValid(username, email) ==
    /\ username \notin Usernames
    /\ UsersWithEmail(email) = {}

signup(s, method, username, email) ==
    LET req == <<>> IN
    /\ Idle
    /\ IF Authenticated(s) THEN
           /\ resp' = Resp("signup", s, "redirect", "home", "already logged in", req, <<>>)
           /\ UNCHANGED <<users, session>>
       ELSE IF method = "POST" /\ SignupFormValid(username, email) THEN
           /\ users' = users \cup {[username |-> username, email |-> email]}
           /\ session' = [session EXCEPT ![s].user = username]
           /\ resp' = Resp("signup", s, "redirect", "home", "Welcome", req, <<>>)
       ELSE
           /\ resp' = Resp("signup", s, IF method = "POST" THEN "invalid" ELSE "page",
                           "", "", req, <<>>)
           /\ UNCHANGED <<users, session>>
    /\ UNCHANGED <<today, resolved, inflight, businesses, memberships, categories,
                   transactions, submitted>>

\* the login flow: django's login() keeps the session data of an anonymous
\* session and flushes the session of another user
login(s, username) ==
    /\ Idle
    /\ username \in Usernames
    /\ session' = [session EXCEPT ![s] =
                      IF session[s].user \in {NoUser, username}
                      THEN [session[s] EXCEPT !.user = username]
                      ELSE [user |-> username, biz_id |-> 0]]
    /\ resp' = Resp("login", s, "redirect", "home", "", <<>>, <<>>)
    /\ UNCHANGED <<today, resolved, inflight>>
    /\ UNCHANGED dbvars

\* a logout that ends the authentication and keeps the rest of the session
custom_logout_keep_selection(s) ==
    /\ Idle
    /\ session' = [session EXCEPT ![s].user = NoUser]
    /\ resp' = Resp("custom_logout", s, "redirect", "login",
                    IF Authenticated(s)
                    THEN "You have been successfully logged out." ELSE "",
                    <<>>, <<>>)
    /\ UNCHANGED <<today, resolved, inflight>>
    /\ UNCHANGED dbvars

custom_logout(s) ==
    /\ Idle
    /\ IF Authenticated(s) THEN
           /\ session' = [session EXCEPT ![s] = NoSession]
           /\ resp' = Resp("custom_logout", s, "redirect", "login",
                           "You have been successfully logged out.", <<>>, <<>>)
       ELSE
           /\ resp' = Resp("custom_logout", s, "redirect", "login", "", <<>>, <<>>)
           /\ UNCHANGED session
    /\ UNCHANGED <<today, resolved, inflight>>
    /\ UNCHANGED dbvars

-----------------------------------------------------------------------------
(* views.py: home (the business list, and business creation)               *)

BusinessNames == {"A", "B"}

\* BusinessForm.is_valid: Business.name is unique
BusinessFormValid(name) == \A i \in BusinessIds : businesses[i].name # name

home(s, method, name) ==
    LET req == <<>>
        u == session[s].user
        id == Len(businesses) + 1
    IN
    /\ Idle
    /\ IF ~Authenticated(s) THEN
           /\ resp' = Resp("home", s, "login", "login", "", req, <<>>)
           /\ UNCHANGED <<session, businesses, memberships>>
       ELSE IF method = "POST" /\ BusinessFormValid(name) THEN
           /\ Len(businesses) < MaxBusinesses
           /\ businesses' = Append(businesses, [name |-> name])
           /\ memberships' = Membership_create(u, id, "OWNER").rows
           /\ session' = [session EXCEPT ![s].biz_id = id]
           /\ resp' = Resp("home", s, "redirect", "dashboard",
                           "Business created and you are OWNER.", req, <<>>)
       ELSE
           /\ resp' = Resp("home", s, IF method = "POST" THEN "invalid" ELSE "page",
                           "", "", req, <<>>)
           /\ UNCHANGED <<session, businesses, memberships>>
    /\ UNCHANGED <<today, resolved, inflight, users, categories, transactions, submitted>>

-----------------------------------------------------------------------------
(* views.py: switch_business                                               *)

\* a switch that selects the business before it looks for the membership
switch_business_select_first(s, biz_id) ==
    LET req == [biz_id |-> biz_id]
        u == session[s].user
    IN
    /\ Idle
    /\ IF ~Authenticated(s) THEN
           /\ resp' = Resp("switch_business", s, "login", "login", "", req, <<>>)
           /\ UNCHANGED session
       ELSE
           /\ session' = [session EXCEPT ![s].biz_id = biz_id]
           /\ resp' = IF ~MembershipExists(u, biz_id)
                      THEN Resp("switch_business", s, "forbidden", "",
                                "You are not a member of this business", req, <<>>)
                      ELSE Resp("switch_business", s, "redirect",
                                IF RoleOf(u, biz_id) \in {"OWNER", "ADMIN"}
                                THEN "dashboard" ELSE "transactions_list",
                                "", req, <<>>)
    /\ UNCHANGED <<today, resolved, inflight>>
    /\ UNCHANGED dbvars

switch_business(s, biz_id) ==
    LET req == [biz_id |-> biz_id]
        u == session[s].user
    IN
    /\ Idle
    /\ IF ~Authenticated(s) THEN
           /\ resp' = Resp("switch_business", s, "login", "login", "", req, <<>>)
           /\ UNCHANGED session
       ELSE IF ~MembershipExists(u, biz_id) THEN
           /\ resp' = Resp("switch_business", s, "forbidden", "",
                           "You are not a member of this business", req, <<>>)
           /\ UNCHANGED session
       ELSE
           /\ session' = [session EXCEPT ![s].biz_id = biz_id]
           /\ resp' = Resp("switch_business", s, "redirect",
                           IF RoleOf(u, biz_id) \in {"OWNER", "ADMIN"}
                           THEN "dashboard" ELSE "transactions_list",
                           "", req, <<>>)
    /\ UNCHANGED <<today, resolved, inflight>>
    /\ UNCHANGED dbvars

-----------------------------------------------------------------------------
(* forms.py: AddMemberForm; views.py: add_member                           *)

\* choices that let a caller assign its own tier
RoleChoices_own_tier(current_user_role) ==
    IF current_user_role = "OWNER" THEN {"OWNER", "ADMIN", "STAFF"}
    ELSE IF current_user_role = "ADMIN" THEN {"ADMIN", "STAFF"}
    ELSE {}

\* AddMemberForm.__init__: the role choices offered to the caller's role
RoleChoices(current_user_role) ==
    IF current_user_role = "OWNER" THEN {"ADMIN", "STAFF"}
    ELSE IF current_user_role = "ADMIN" THEN {"STAFF"}
    ELSE {}

\* a form that looks up the e-mail and takes whatever role was posted
AddMemberFormValid_any_role(current_user_role, email, role) ==
    UsersWithEmail(email) # {}

\* AddMemberForm.is_valid: clean_email finds the account, and the role is
\* one of the choices
AddMemberFormValid(current_user_role, email, role) ==
    /\ UsersWithEmail(email) # {}
    /\ role \in RoleChoices(current_user_role)

\* a view that leaves the duplicate to the database
NeverAlreadyMember(u, b) == FALSE

\* the check of lines 430-431
AlreadyMember(u, b) == MembershipExists(u, b)

add_member(s, method, email, role) ==
    LET req == IF method = "POST"
               THEN [method |-> method, email |-> email, role |-> role]
               ELSE [method |-> method, email |-> "", role |-> ""]
        gate == require_membership(s)
        biz_id == session[s].biz_id
        current_role == RoleOf(session[s].user, biz_id)
        found == UsersWithEmail(email)
        user == (CHOOSE u \in found : TRUE).username
        created == Membership_create(user, biz_id, role)
    IN
    /\ Idle
    /\ IF gate # "pass" THEN
           /\ resp' = Refused("add_member", s, gate, req)
           /\ UNCHANGED memberships
       ELSE IF current_role \notin {"OWNER", "ADMIN"} THEN
           /\ resp' = Resp("add_member", s, "forbidden", "",
                           "You do not have permission to add members.", req, <<>>)
           /\ UNCHANGED memberships
       ELSE IF method # "POST" THEN
           /\ resp' = Resp("add_member", s, "page", "", "", req, <<>>)
           /\ UNCHANGED memberships
       ELSE IF Cardinality(found) > 1 THEN
           \* User.objects.get raises MultipleObjectsReturned
           /\ resp' = Resp("add_member", s, "error", "", "MultipleObjectsReturned", req, <<>>)
           /\ UNCHANGED memberships
       ELSE IF ~AddMemberFormValid(current_role, email, role) THEN
           /\ resp' = Resp("add_member", s, "invalid", "", "", req, <<>>)
           /\ UNCHANGED memberships
       ELSE IF AlreadyMember(user, biz_id) THEN
           /\ resp' = Resp("add_member", s, "page", "",
                           "This user is already a member of this business.", req, <<>>)
           /\ UNCHANGED memberships
       ELSE IF ~created.ok THEN
           /\ resp' = Resp("add_member", s, "error", "", "IntegrityError", req, <<>>)
           /\ UNCHANGED memberships
       ELSE
           /\ memberships' = created.rows
           /\ resp' = Resp("add_member", s, "redirect", "dashboard",
                           "Successfully added", req, <<>>)
    /\ UNCHANGED <<today, resolved, inflight, users, session, businesses, categories,
                   transactions, submitted>>

-----------------------------------------------------------------------------
(* views.py: add_member served by several workers at once. Nothing in the  *)
(* view holds a lock or a transaction across lines 430-438, so another     *)
(* request may run between the membership lookup and the insert: the POST  *)
(* is two steps, the checks up to line 431 and the create of line 434.     *)

\* lines 410-431 of a POST: the gate, the role check, the form and the
\* lookup; the request goes on to the create, or is answered here
add_member_check(w, s, email, role) ==
    LET gate == require_membership(s)
        biz_id == session[s].biz_id
        current_role == RoleOf(session[s].user, biz_id)
        found == UsersWithEmail(email)
        user == (CHOOSE u \in found : TRUE).username
        answered(status, msg) ==
            [stage |-> "done", sess |-> s, user |-> "", business |-> 0,
             role |-> role, status |-> status, msg |-> msg]
    IN
    /\ inflight[w].stage = "free"
    /\ inflight' = [inflight EXCEPT ![w] =
          IF gate = "login" THEN answered("login", "")
          ELSE IF gate # "pass" THEN answered("forbidden", gate)
          ELSE IF current_role \notin {"OWNER", "ADMIN"}
               THEN answered("forbidden", "You do not have permission to add members.")
          ELSE IF Cardinality(found) > 1 THEN answered("error", "MultipleObjectsReturned")
          ELSE IF ~AddMemberFormValid(current_role, email, role)
               THEN answered("invalid", "")
          ELSE IF AlreadyMember(user, biz_id)
               THEN [answered("page", "This user is already a member of this business.")
                        EXCEPT !.user = user, !.business = biz_id]
          ELSE [stage |-> "checked", sess |-> s, user |-> user, business |-> biz_id,
                role |-> role, status |-> "", msg |-> ""]]
    /\ UNCHANGED <<today, resolved, session, resp>>
    /\ UNCHANGED dbvars

\* lines 434-440: Membership.objects.create, which the unique constraint
\* may refuse (IntegrityError, caught nowhere), then the redirect
add_member_create(w) ==
    LET r == inflight[w]
        created == Membership_create(r.user, r.business, r.role)
    IN
    /\ r.stage = "checked"
    /\ IF created.ok THEN
           /\ memberships' = created.rows
           /\ inflight' = [inflight EXCEPT ![w] =
                 [r EXCEPT !.stage = "done", !.status = "redirect",
                           !.msg = "Successfully added"]]
       ELSE
           /\ UNCHANGED memberships
           /\ inflight' = [inflight EXCEPT ![w] =
                 [r EXCEPT !.stage = "done", !.status = "error",
                           !.msg = "IntegrityError"]]
    /\ UNCHANGED <<today, resolved, session, resp, users, businesses, categories,
                   transactions, submitted>>

\* the answer leaves; the worker is free for the next request
add_member_served(w) ==
    /\ inflight[w].stage = "done"
    /\ inflight' = [inflight EXCEPT ![w] = NoRequest]
    /\ UNCHANGED <<today, resolved, session, resp>>
    /\ UNCHANGED dbvars

-----------------------------------------------------------------------------
(* Text values: a str is the sequence of its characters.                   *)

Whitespace == {" "}
Digits == <<"0", "1", "2", "3", "4", "5", "6", "7", "8", "9">>
DigitChars == {Digits[i] : i \in 1..10}
DigitValue(c) == (CHOOSE i \in 1..10 : Digits[i] = c) - 1

RECURSIVE lstrip(_)
lstrip(t) == IF t # <<>> /\ Head(t) \in Whitespace THEN lstrip(Tail(t)) ELSE t

RECURSIVE rstrip(_)
rstrip(t) ==
    IF t # <<>> /\ t[Len(t)] \in Whitespace
    THEN rstrip(SubSeq(t, 1, Len(t) - 1)) ELSE t

\* a clean that leaves the posted text as it is
keep_text(t) == t

\* str.strip(), which django's forms.CharField (strip=True, the form field a
\* ModelForm builds for models.CharField) applies to the posted text
strip(t) == rstrip(lstrip(t))

AllDigits(t) == \A i \in 1..Len(t) : t[i] \in DigitChars

RECURSIVE DigitsValue(_)
DigitsValue(t) ==
    IF t = <<>> THEN 0
    ELSE 10 * DigitsValue(SubSeq(t, 1, Len(t) - 1)) + DigitValue(t[Len(t)])

\* The numeric syntax Decimal(str) and float(str) both accept, over the
\* characters used here: optional surrounding whitespace, an optional sign,
\* digits with at most one point and at least one digit. The value is kept
\* in hundredths (the texts used carry at most two decimals).
Unsigned(t) == IF t # <<>> /\ Head(t) \in {"+", "-"} THEN Tail(t) ELSE t
PointAt(t) == {i \in 1..Len(t) : t[i] = "."}
IntPart(t) == IF PointAt(t) = {} THEN t
              ELSE SubSeq(t, 1, (CHOOSE i \in PointAt(t) : TRUE) - 1)
FracPart(t) == IF PointAt(t) = {} THEN <<>>
               ELSE SubSeq(t, (CHOOSE i \in PointAt(t) : TRUE) + 1, Len(t))

IsNumeric(text) ==
    LET t == Unsigned(strip(text)) IN
    /\ Cardinality(PointAt(t)) <= 1
    /\ AllDigits(IntPart(t)) /\ AllDigits(FracPart(t))
    /\ Len(IntPart(t)) + Len(FracPart(t)) > 0
    /\ Len(FracPart(t)) <= 2

Hundredths(text) ==
    LET t == Unsigned(strip(text))
        f == FracPart(t)
        frac == IF Len(f) = 0 THEN 0
                ELSE IF Len(f) = 1 THEN 10 * DigitValue(f[1])
                ELSE 10 * DigitValue(f[1]) + DigitValue(f[2])
        magnitude == 100 * DigitsValue(IntPart(t)) + frac
    IN IF strip(text) # <<>> /\ Head(strip(text)) = "-" THEN 0 - magnitude ELSE magnitude

\* Decimal(str(amount)): the value, or the exception it raises
DecimalCoerce(text) ==
    IF IsNumeric(text) THEN [raises |-> "", value |-> Hundredths(text)]
    ELSE [raises |-> "InvalidOperation", value |-> 0]

\* float(amount)
FloatCoerce(text) ==
    IF IsNumeric(text) THEN [raises |-> "", value |-> Hundredths(text)]
    ELSE [raises |-> "ValueError", value |-> 0]

\* except (ValueError, TypeError): pass
DashboardCatches == {"ValueError", "TypeError"}

-----------------------------------------------------------------------------
(* forms.py: CashInForm / CashOutForm and CategoryForm; models.py limits   *)

DetailsMaxLength == 240
AmountMaxLength == 40
CategoryNameMaxLength == 100

\* the cleaned data of a transaction form
CleanedTransaction(business, category, details, date, amount) ==
    [business |-> business, category |-> category, details |-> strip(details),
     date |-> date, amount |-> strip(amount)]

\* ModelForm.is_valid for the fields business, category, details, date,
\* amount (photo is optional and left out): both foreign keys name existing
\* rows of their tables, the date parses, the amount is not blank
TransactionFormValid(business, category, details, date, amount) ==
    /\ business \in BusinessIds
    /\ category \in CategoryIds
    /\ Len(strip(details)) <= DetailsMaxLength
    /\ date # NoDate
    /\ strip(amount) # <<>>
    /\ Len(strip(amount)) <= AmountMaxLength

\* CategoryForm.is_valid, unique_together = ('business', 'name', 'kind')
CategoryFormValid(business, name, kind) ==
    /\ business \in BusinessIds
    /\ strip(name) # <<>>
    /\ Len(strip(name)) <= CategoryNameMaxLength
    /\ kind \in CategoryKinds
    /\ \A i \in CategoryIds :
          ~(/\ categories[i].business = business
            /\ categories[i].name = strip(name)
            /\ categories[i].kind = kind)

-----------------------------------------------------------------------------
(* views.py: cash_in_create, cash_out_create                               *)

\* role sets that let every member record
AnyRole == Roles

CashInRoles == {"OWNER", "ADMIN"}
CashOutRoles == {"STAFF", "OWNER"}

\* a check that accepts any business
AnyBusiness(obj_business, s) == TRUE

\* obj.business_id != request.session['biz_id'], negated
BusinessMatchesSession(obj_business, s) == obj_business = session[s].biz_id

\* what a POST may carry besides the fields of the form: a kind and a
\* creator, which the forms (fields of forms.py:25 and 41) do not read
NoExtra == [kind |-> "absent", created_by |-> "absent"]

\* a view that stamps every record as a cash-in of the first account
stamped_alike(s, kind, obj) ==
    [business |-> obj.business, category |-> obj.category, kind |-> "CASH_IN",
     amount |-> obj.amount, details |-> obj.details, date |-> obj.date,
     created_by |-> "u1"]

\* obj = form.save(commit=False); obj.kind = ...; obj.created_by =
\* request.user: the instance built from the cleaned fields, stamped
stamped(s, kind, obj) ==
    [business |-> obj.business, category |-> obj.category, kind |-> kind,
     amount |-> obj.amount, details |-> obj.details, date |-> obj.date,
     created_by |-> session[s].user]

\* a save that writes over the newest row of the table
SaveTransaction_over_newest(s, kind, obj, posted) ==
    /\ Len(transactions) < MaxTransactions
    /\ transactions' = IF transactions = <<>>
                       THEN <<stamped(s, kind, obj)>>
                       ELSE [transactions EXCEPT ![Len(transactions)] =
                                stamped(s, kind, obj)]
    /\ submitted' = IF submitted = <<>> THEN <<posted>>
                    ELSE [submitted EXCEPT ![Len(submitted)] = posted]

\* obj.save(): a new row
SaveTransaction(s, kind, obj, posted) ==
    /\ Len(transactions) < MaxTransactions
    /\ transactions' = Append(transactions, stamped(s, kind, obj))
    /\ submitted' = Append(submitted, posted)

cash_in_create(s, method, business, category, details, date, amount, extra) ==
    LET req == IF method = "POST"
               THEN [method |-> method, business |-> business, extra |-> extra]
               ELSE [method |-> method, business |-> 0, extra |-> NoExtra]
        gate == require_membership(s)
        role == RoleOf(session[s].user, session[s].biz_id)
        obj == CleanedTransaction(business, category, details, date, amount)
        posted == [category |-> category, details |-> details, date |-> date,
                   amount |-> amount]
    IN
    /\ Idle
    /\ IF gate # "pass" THEN
           /\ resp' = Refused("cash_in_create", s, gate, req)
           /\ UNCHANGED <<transactions, submitted>>
       ELSE IF role \notin CashInRoles THEN
           /\ resp' = Resp("cash_in_create", s, "redirect", "transactions_list",
                           "You cannot access to this", req, <<>>)
           /\ UNCHANGED <<transactions, submitted>>
       ELSE IF method # "POST" THEN
           /\ resp' = Resp("cash_in_create", s, "page", "", "", req, <<>>)
           /\ UNCHANGED <<transactions, submitted>>
       ELSE IF ~TransactionFormValid(business, category, details, date, amount) THEN
           /\ resp' = Resp("cash_in_create", s, "invalid", "", "", req, <<>>)
           /\ UNCHANGED <<transactions, submitted>>
       ELSE IF ~BusinessMatchesSession(obj.business, s) THEN
           /\ resp' = Resp("cash_in_create", s, "forbidden", "",
                           "Wrong business selected.", req, <<>>)
           /\ UNCHANGED <<transactions, submitted>>
       ELSE
           /\ SaveTransaction(s, "CASH_IN", obj, posted)
           /\ resp' = Resp("cash_in_create", s, "redirect", "transactions_list",
                           "Cash In recorded.", req, <<>>)
    /\ UNCHANGED <<today, resolved, inflight, users, session, businesses, memberships,
                   categories>>

cash_out_create(s, method, business, category, details, date, amount, extra) ==
    LET req == IF method = "POST"
               THEN [method |-> method, business |-> business, extra |-> extra]
               ELSE [method |-> method, business |-> 0, extra |-> NoExtra]
        gate == require_membership(s)
        role == RoleOf(session[s].user, session[s].biz_id)
        obj == CleanedTransaction(business, category, details, date, amount)
        posted == [category |-> category, details |-> details, date |-> date,
                   amount |-> amount]
    IN
    /\ Idle
    /\ IF gate # "pass" THEN
           /\ resp' = Refused("cash_out_create", s, gate, req)
           /\ UNCHANGED <<transactions, submitted>>
       ELSE IF role \notin CashOutRoles THEN
           /\ resp' = Resp("cash_out_create", s, "forbidden", "",
                           "Only staff/owner can record cash out.", req, <<>>)
           /\ UNCHANGED <<transactions, submitted>>
       ELSE IF method # "POST" THEN
           /\ resp' = Resp("cash_out_create", s, "page", "", "", req, <<>>)
           /\ UNCHANGED <<transactions, submitted>>
       ELSE IF ~TransactionFormValid(business, category, details, date, amount) THEN
           /\ resp' = Resp("cash_out_create", s, "invalid", "", "", req, <<>>)
           /\ UNCHANGED <<transactions, submitted>>
       ELSE IF ~BusinessMatchesSession(obj.business, s) THEN
           /\ resp' = Resp("cash_out_create", s, "forbidden", "",
                           "Wrong business selected.", req, <<>>)
           /\ UNCHANGED <<transactions, submitted>>
       ELSE
           /\ SaveTransaction(s, "CASH_OUT", obj, posted)
           /\ resp' = Resp("cash_out_create", s, "redirect", "transactions_list",
                           "Cash Out recorded.", req, <<>>)
    /\ UNCHANGED <<today, resolved, inflight, users, session, businesses, memberships,
                   categories>>

-----------------------------------------------------------------------------
(* views.py: create_transaction_category                                   *)

\* form data that keeps the business the client sent
post_data_as_sent(s, business) == business

\* post_data = request.POST.copy(); post_data['business'] =
\* request.session['biz_id']: the business the form is given
post_data(s, business) == session[s].biz_id

create_transaction_category(s, method, business, name, kind) ==
    LET req == [business |-> business]
        gate == require_membership(s)
        post_business == post_data(s, business)
    IN
    /\ Idle
    /\ IF gate # "pass" THEN
           /\ resp' = Refused("create_transaction_category", s, gate, req)
           /\ UNCHANGED categories
       ELSE IF method # "POST" THEN
           /\ resp' = Resp("create_transaction_category", s, "405", "",
                           "Invalid request method", req, <<>>)
           /\ UNCHANGED categories
       ELSE IF ~CategoryFormValid(post_business, name, kind) THEN
           /\ resp' = Resp("create_transaction_category", s, "invalid", "", "", req, <<>>)
           /\ UNCHANGED categories
       ELSE
           /\ Len(categories) < MaxCategories
           /\ categories' = Append(categories,
                 [business |-> post_business, name |-> strip(name), kind |-> kind])
           /\ resp' = Resp("create_transaction_category", s, "json", "",
                           "Category created successfully!", req,
                           [category_id |-> Len(categories) + 1])
    /\ UNCHANGED <<today, resolved, inflight, users, session, businesses, memberships,
                   transactions, submitted>>

-----------------------------------------------------------------------------
(* views.py: the date filter shared by dashboard, transactions_list and    *)
(* export_excel (lines 573-582, 662-671)                                   *)

AbsentParam == "absent"

\* form.data.get('period', 'this_month')
PeriodOf(period) == IF period = AbsentParam THEN "this_month" ELSE period

\* form.data.get('date_from') or (start.isoformat() if start else None)
BoundFrom(period, date_from) ==
    IF date_from # NoDate THEN date_from
    ELSE resolve_period(PeriodOf(period), today).start

BoundTo(period, date_to) ==
    IF date_to # NoDate THEN date_to
    ELSE resolve_period(PeriodOf(period), today).end

\* Transaction.objects.filter(business_id=biz_id), then date__gte and
\* date__lte when the bound is set
InRange(biz_id, from, to) ==
    {i \in TransactionIds :
        /\ transactions[i].business = biz_id
        /\ (from = NoDate \/ DateLE(from, transactions[i].date))
        /\ (to = NoDate \/ DateLE(transactions[i].date, to))}

OfKind(ids, kind) == {i \in ids : transactions[i].kind = kind}

\* .order_by('-date', '-id'): the ids, latest date first, highest id first
Newest(ids) ==
    CHOOSE i \in ids : \A j \in ids :
        \/ DateKey(transactions[j].date) < DateKey(transactions[i].date)
        \/ (transactions[j].date = transactions[i].date /\ j <= i)

\* an ordering by identifier alone, highest first
RECURSIVE OrderedByIdDesc(_)
OrderedByIdDesc(ids) ==
    IF ids = {} THEN <<>>
    ELSE LET last == CHOOSE i \in ids : \A j \in ids : j <= i
         IN <<last>> \o OrderedByIdDesc(ids \ {last})

RECURSIVE OrderedByDateDesc(_)
OrderedByDateDesc(ids) ==
    IF ids = {} THEN <<>>
    ELSE <<Newest(ids)>> \o OrderedByDateDesc(ids \ {Newest(ids)})

-----------------------------------------------------------------------------
(* views.py: transactions_list                                             *)

transactions_list(s, period, date_from, date_to, kind) ==
    LET req == [period |-> period, date_from |-> date_from, date_to |-> date_to,
                kind |-> kind]
        gate == require_membership(s)
        biz_id == session[s].biz_id
        qs == InRange(biz_id, BoundFrom(period, date_from), BoundTo(period, date_to))
        shown == IF kind \in {"CASH_IN", "CASH_OUT"} THEN OfKind(qs, kind) ELSE qs
    IN
    /\ Idle
    /\ IF gate # "pass" THEN
           resp' = Refused("transactions_list", s, gate, req)
       ELSE
           resp' = Resp("transactions_list", s, "page", "", "", req,
                        [transactions |-> OrderedByDateDesc(shown)])
    /\ UNCHANGED <<today, resolved, inflight, session>>
    /\ UNCHANGED dbvars

-----------------------------------------------------------------------------
(* views.py: dashboard                                                     *)

DashboardRoles == {"OWNER", "ADMIN"}
RecentLimit == 10

\* the exception, if any, that ends the two Decimal loops of lines 590-600
UncaughtIn(ids) ==
    {DecimalCoerce(transactions[i].amount).raises : i \in ids}
        \ (DashboardCatches \cup {""})

RECURSIVE DecimalTotal(_)
DecimalTotal(ids) ==
    IF ids = {} THEN 0
    ELSE LET i == CHOOSE j \in ids : TRUE
             d == DecimalCoerce(transactions[i].amount)
         IN (IF d.raises = "" THEN d.value ELSE 0) + DecimalTotal(ids \ {i})

\* transaction.date.strftime('%Y-%m'), as the number YYYYMM (texts of this
\* shape sort as the numbers do)
MonthKey(dt) == dt.year * 100 + dt.month

\* the keys of monthly_data: a month gets its entry when float() succeeds
MonthKeys(ids) ==
    {MonthKey(transactions[i].date) :
        i \in {j \in ids : FloatCoerce(transactions[j].amount).raises = ""}}

RECURSIVE FloatTotal(_)
FloatTotal(ids) ==
    IF ids = {} THEN 0
    ELSE LET i == CHOOSE j \in ids : TRUE
             f == FloatCoerce(transactions[i].amount)
         IN (IF f.raises = "" THEN f.value ELSE 0) + FloatTotal(ids \ {i})

RECURSIVE SortedAsc(_)
SortedAsc(keys) ==
    IF keys = {} THEN <<>>
    ELSE LET least == CHOOSE k \in keys : \A l \in keys : k <= l
         IN <<least>> \o SortedAsc(keys \ {least})

InMonth(ids, key, kind) ==
    {i \in OfKind(ids, kind) : MonthKey(transactions[i].date) = key}

\* the role column is text: its order is the order of the spellings
Alphabet == <<"A", "B", "C", "D", "E", "F", "G", "H", "I", "J", "K", "L", "M",
              "N", "O", "P", "Q", "R", "S", "T", "U", "V", "W", "X", "Y", "Z">>
CodePoint(c) == 64 + (CHOOSE i \in 1..Len(Alphabet) : Alphabet[i] = c)

RoleText(role) ==
    IF role = "OWNER" THEN <<"O", "W", "N", "E", "R">>
    ELSE IF role = "ADMIN" THEN <<"A", "D", "M", "I", "N">>
    ELSE <<"S", "T", "A", "F", "F">>

RECURSIVE TextLess(_, _)
TextLess(a, b) ==
    IF b = <<>> THEN FALSE
    ELSE IF a = <<>> THEN TRUE
    ELSE IF Head(a) = Head(b) THEN TextLess(Tail(a), Tail(b))
    ELSE CodePoint(Head(a)) < CodePoint(Head(b))

BusinessMembers(biz_id) == {r \in BagToSet(memberships) : r.business = biz_id}

\* Membership.objects.filter(business_id=biz_id).order_by('-role',
\* 'user__first_name', 'user__last_name'): the orders the query may return;
\* no account here carries a first or last name, so rows of one role come
\* in any order
TeamRosters(biz_id) ==
    LET rows == BusinessMembers(biz_id)
        n == Cardinality(rows)
    IN {f \in [1..n -> rows] :
          /\ \A i, j \in 1..n : i # j => f[i] # f[j]
          /\ \A i, j \in 1..n :
                i < j => ~TextLess(RoleText(f[i].role), RoleText(f[j].role))}

dashboard(s, period, date_from, date_to) ==
    LET req == [period |-> period, date_from |-> date_from, date_to |-> date_to]
        gate == require_membership(s)
        biz_id == session[s].biz_id
        role == RoleOf(session[s].user, biz_id)
        tx == InRange(biz_id, BoundFrom(period, date_from), BoundTo(period, date_to))
        uncaught == UncaughtIn(OfKind(tx, "CASH_IN")) \cup UncaughtIn(OfKind(tx, "CASH_OUT"))
        total_in == DecimalTotal(OfKind(tx, "CASH_IN"))
        total_out == DecimalTotal(OfKind(tx, "CASH_OUT"))
        labels == SortedAsc(MonthKeys(tx))
        recent == OrderedByDateDesc(InRange(biz_id, NoDate, NoDate))
    IN
    /\ Idle
    /\ IF gate # "pass" THEN
           resp' = Refused("dashboard", s, gate, req)
       ELSE IF role \notin DashboardRoles THEN
           resp' = Resp("dashboard", s, "redirect", "transactions_list",
                        "You do not have permission to access the dashboard.", req, <<>>)
       ELSE IF uncaught # {} THEN
           resp' = Resp("dashboard", s, "error", "", CHOOSE e \in uncaught : TRUE, req, <<>>)
       ELSE
           \E team_members \in TeamRosters(biz_id) :
             resp' = Resp("dashboard", s, "page", "", "", req,
                [total_in |-> total_in,
                 total_out |-> total_out,
                 balance |-> total_in - total_out,
                 labels |-> labels,
                 data_in |-> [k \in 1..Len(labels) |->
                                FloatTotal(InMonth(tx, labels[k], "CASH_IN"))],
                 data_out |-> [k \in 1..Len(labels) |->
                                FloatTotal(InMonth(tx, labels[k], "CASH_OUT"))],
                 recent_transactions |->
                     SubSeq(recent, 1, IF Len(recent) < RecentLimit
                                       THEN Len(recent) ELSE RecentLimit),
                 team_members |-> team_members])
    /\ UNCHANGED <<today, resolved, inflight, session>>
    /\ UNCHANGED dbvars

-----------------------------------------------------------------------------
(* views.py: export_excel, export_pdf                                      *)

\* the ids of a set in ascending order: the rows of a query without order_by
\* are taken as the table holds them
RECURSIVE InIdOrder(_)
InIdOrder(ids) ==
    IF ids = {} THEN <<>>
    ELSE LET least == CHOOSE i \in ids : \A j \in ids : i <= j
         IN <<least>> \o InIdOrder(ids \ {least})

\* the 'sum' of a column of str: the texts of the rows, joined
RECURSIVE JoinedAmounts(_)
JoinedAmounts(rows) ==
    IF rows = <<>> THEN <<>>
    ELSE transactions[Head(rows)].amount \o JoinedAmounts(Tail(rows))

\* df.groupby(['kind']).agg(total_amount=('amount', 'sum')): one row per
\* kind that occurs in the frame
KindSummary(ids) ==
    [k \in {transactions[i].kind : i \in ids} |->
        JoinedAmounts(InIdOrder(OfKind(ids, k)))]

export_excel(s, period, date_from, date_to) ==
    LET req == [period |-> period, date_from |-> date_from, date_to |-> date_to]
        gate == require_membership(s)
        biz_id == session[s].biz_id
        qs == InRange(biz_id, BoundFrom(period, date_from), BoundTo(period, date_to))
    IN
    /\ Idle
    /\ IF gate # "pass" THEN
           resp' = Refused("export_excel", s, gate, req)
       ELSE IF qs = {} THEN
           \* a frame built from no row has no column: groupby(['kind'])
           \* raises KeyError
           resp' = Resp("export_excel", s, "error", "", "KeyError", req, <<>>)
       ELSE
           resp' = Resp("export_excel", s, "file", "", "", req,
                        [Transactions |-> InIdOrder(qs),
                         Summary |-> KindSummary(qs)])
    /\ UNCHANGED <<today, resolved, inflight, session>>
    /\ UNCHANGED dbvars

PdfLimit == 200

\* .order_by('date'): earliest date first (rows of one date as the table
\* holds them)
Oldest(ids) ==
    CHOOSE i \in ids : \A j \in ids :
        \/ DateKey(transactions[i].date) < DateKey(transactions[j].date)
        \/ (transactions[j].date = transactions[i].date /\ i <= j)

RECURSIVE OrderedByDate(_)
OrderedByDate(ids) ==
    IF ids = {} THEN <<>>
    ELSE <<Oldest(ids)>> \o OrderedByDate(ids \ {Oldest(ids)})

export_pdf(s) ==
    LET gate == require_membership(s)
        rows == OrderedByDate(InRange(session[s].biz_id, NoDate, NoDate))
    IN
    /\ Idle
    /\ IF gate # "pass" THEN
           resp' = Refused("export_pdf", s, gate, <<>>)
       ELSE
           resp' = Resp("export_pdf", s, "file", "", "", <<>>,
                        [rows |-> SubSeq(rows, 1, IF Len(rows) < PdfLimit
                                                  THEN Len(rows) ELSE PdfLimit)])
    /\ UNCHANGED <<today, resolved, inflight, session>>
    /\ UNCHANGED dbvars

-----------------------------------------------------------------------------
(* The period specification: the clock holds any date, a call of           *)
(* resolve_period records its keyword and result, and the day may pass.    *)

NoCall == [period |-> "none", start |-> NoDate, end |-> NoDate]

PeriodInit ==
    /\ today \in AllDates
    /\ resolved = NoCall
    /\ EmptyDb
    /\ session = [s \in Sessions |-> NoSession]
    /\ resp = NoResp
    /\ inflight = NoRequests

ResolvePeriodCall(p) ==
    /\ resolved' = [period |-> p,
                    start |-> resolve_period(p, today).start,
                    end |-> resolve_period(p, today).end]
    /\ UNCHANGED <<today, session, resp, inflight>>
    /\ UNCHANGED dbvars

PeriodNext == \E p \in Periods : ResolvePeriodCall(p)

SpecPeriod == PeriodInit /\ [][PeriodNext]_vars

-----------------------------------------------------------------------------
(* Claims about the period resolver, checked under SpecPeriod.             *)

\* C9: for every today, resolve_period('this_month') returns start <= today
\* <= end, start being day 1 of today's month and end the last day of
\* today's month in today's year (the month has as many days, counted by
\* ordinal, as the calendar gives it).
C9_ThisMonthBrackets ==
    resolved.period = "this_month" =>
        /\ DateLE(resolved.start, today) /\ DateLE(today, resolved.end)
        /\ resolved.start = MkDate(today.year, today.month, 1)
        /\ resolved.end = MkDate(today.year, today.month,
                                DaysInMonth(today.year, today.month))
        /\ Ordinal(resolved.end) - Ordinal(resolved.start) + 1
               = DaysInMonth(today.year, today.month)

C9_Witness ==
    /\ resolved.period = "this_month"
    /\ today.month = 12 /\ today.day = 31
    /\ resolved.end = today

\* C10: for every today, the end of resolve_period('last_month') is exactly
\* one day (by ordinal) before the start of resolve_period('this_month'),
\* and the last_month start is day 1 of the month containing that end.
C10_LastMonthAdjoins ==
    resolved.period = "last_month" =>
        /\ Ordinal(resolved.end) + 1
               = Ordinal(resolve_period("this_month", today).start)
        /\ resolved.start = MkDate(resolved.end.year, resolved.end.month, 1)

C10_Witness ==
    /\ resolved.period = "last_month"
    /\ today.month = 1
    /\ resolved.end = MkDate(today.year - 1, 12, 31)
    /\ resolved.start = MkDate(today.year - 1, 12, 1)

-----------------------------------------------------------------------------
(* The response is handed to the browser; the next request may follow.     *)

respond ==
    /\ ~Idle
    /\ resp' = NoResp
    /\ UNCHANGED <<today, resolved, inflight, session>>
    /\ UNCHANGED dbvars

-----------------------------------------------------------------------------
(* The application: an empty database, one anonymous browser session.      *)

Init ==
    /\ today = MkDate(2024, 12, 31)
    /\ resolved = NoCall
    /\ EmptyDb
    /\ session = [s \in Sessions |-> NoSession]
    /\ resp = NoResp
    /\ inflight = NoRequests

Next ==
    \/ \E s \in Sessions, m \in Methods, u \in Users :
          \E e \in {EmailOf(u), "e1"} : signup(s, m, u, e)
    \/ \E s \in Sessions, u \in Users : login(s, u)
    \/ \E s \in Sessions : custom_logout(s)
    \/ \E s \in Sessions, m \in Methods, n \in BusinessNames : home(s, m, n)
    \/ \E s \in Sessions, b \in 1..MaxBusinesses : switch_business(s, b)
    \/ \E s \in Sessions, m \in Methods, e \in Emails, r \in Roles :
          add_member(s, m, e, r)
    \/ respond

Spec == Init /\ [][Next]_vars

-----------------------------------------------------------------------------
(* Claims about accounts, sessions, businesses and memberships, checked    *)
(* under Spec. A step that leaves Idle is the step of one handler: resp'   *)
(* names it, the unprimed variables are the state the request met.         *)

\* the number of Membership rows of a (user, business) pair
RowCount(u, b) ==
    LET rows == MembershipRows(u, b) IN
    IF rows = {} THEN 0
    ELSE IF Cardinality(rows) = 1
         THEN CopiesIn(CHOOSE r \in rows : TRUE, memberships)
         ELSE 2

\* C1: switch_business by a caller who holds no membership in the target is
\* answered forbidden and leaves the session as it was; and whenever a
\* switch_business step changes a session's selection, the new selection is
\* the requested business and the caller was a member of it at that moment.
C1_SwitchNeedsMembership ==
    [][\A s \in Sessions :
         (Idle /\ resp'.op = "switch_business" /\ resp'.sess = s) =>
            LET b == resp'.req.biz_id
                u == session[s].user
            IN /\ (Authenticated(s) /\ ~MembershipExists(u, b)) =>
                      (resp'.status = "forbidden" /\ session' = session)
               /\ session'[s].biz_id # session[s].biz_id =>
                      (session'[s].biz_id = b /\ Authenticated(s)
                       /\ MembershipExists(u, b))
               /\ \A t \in Sessions \ {s} : session'[t] = session[t]]_vars

\* a member of business 2 only, with business 2 selected, is refused
\* business 1, which exists
C1_Witness ==
    /\ resp.op = "switch_business" /\ resp.status = "forbidden"
    /\ resp.req.biz_id \in BusinessIds
    /\ session[resp.sess].biz_id \in BusinessIds \ {resp.req.biz_id}
    /\ ~MembershipExists(session[resp.sess].user, resp.req.biz_id)

\* C2: there is at most one Membership row per (user, business); and an
\* add_member submission whose target is already a member of the active
\* business creates no row, and one that passes the caller's permission
\* and the form (a role the caller may assign) is answered with the
\* 'already a member' message.
C2_OneRowPerPair ==
    /\ [](\A u \in Users, b \in 1..MaxBusinesses : RowCount(u, b) <= 1)
    /\ [][\A s \in Sessions :
            (/\ Idle /\ resp'.op = "add_member" /\ resp'.sess = s
             /\ resp'.req.method = "POST"
             /\ \E a \in UsersWithEmail(resp'.req.email) :
                   MembershipExists(a.username, session[s].biz_id)) =>
               /\ memberships' = memberships
               /\ resp'.status # "redirect"
               /\ (/\ require_membership(s) = "pass"
                   /\ RoleOf(session[s].user, session[s].biz_id) = "OWNER"
                         => resp'.req.role \in {"ADMIN", "STAFF"}
                   /\ RoleOf(session[s].user, session[s].biz_id) = "ADMIN"
                         => resp'.req.role = "STAFF"
                   /\ RoleOf(session[s].user, session[s].biz_id) \in {"OWNER", "ADMIN"})
                  => (resp'.status = "page" /\ resp'.msg =
                        "This user is already a member of this business.")]_vars

\* the second attempt to add the same account: a member other than the
\* caller is the target, and the answer is the message
C2_Witness ==
    /\ resp.op = "add_member" /\ resp.status = "page"
    /\ resp.msg = "This user is already a member of this business."
    /\ \E a \in UsersWithEmail(resp.req.email) :
          /\ a.username # session[resp.sess].user
          /\ RowCount(a.username, session[resp.sess].biz_id) = 1

\* C3: in add_member, a caller whose role in the active business is ADMIN
\* never creates an OWNER or ADMIN membership (the submission is rejected
\* and no row is created); no caller creates an OWNER membership; and an
\* OWNER posting ADMIN or STAFF for an existing account that is not yet a
\* member succeeds and creates exactly that membership.
C3_RoleCeiling ==
    [][\A s \in Sessions :
         (Idle /\ resp'.op = "add_member" /\ resp'.sess = s) =>
            LET biz == session[s].biz_id
                caller == IF require_membership(s) = "pass"
                          THEN RoleOf(session[s].user, biz) ELSE ""
                target == UsersWithEmail(resp'.req.email)
            IN /\ (caller = "ADMIN" /\ resp'.req.role \in {"OWNER", "ADMIN"}) =>
                      (memberships' = memberships /\ resp'.status = "invalid")
               /\ \A r \in BagToSet(memberships') :
                      r.role = "OWNER" => CopiesIn(r, memberships') = CopiesIn(r, memberships)
               /\ (/\ caller = "OWNER"
                   /\ resp'.req.method = "POST"
                   /\ resp'.req.role \in {"ADMIN", "STAFF"}
                   /\ target # {}
                   /\ \A a \in target : ~MembershipExists(a.username, biz)) =>
                      /\ resp'.status = "redirect" /\ resp'.to = "dashboard"
                      /\ \E a \in target :
                            memberships' = memberships (+)
                               SetToBag({MembershipRow(a.username, biz, resp'.req.role)})]_vars

\* an ADMIN, made so by the OWNER, is refused the role ADMIN for an account
\* that is not a member
C3_Witness ==
    /\ resp.op = "add_member" /\ resp.status = "invalid"
    /\ resp.req.role = "ADMIN"
    /\ RoleOf(session[resp.sess].user, session[resp.sess].biz_id) = "ADMIN"
    /\ \E a \in UsersWithEmail(resp.req.email) :
          ~MembershipExists(a.username, session[resp.sess].biz_id)

-----------------------------------------------------------------------------
(* The ledger specifications start from a database the application reaches *)
(* (SeedReached is reachable under Spec): three accounts, business 1 with  *)
(* an OWNER, an ADMIN and a STAFF member, business 2 owned by the ADMIN of *)
(* business 1; no category, no transaction, an anonymous session.          *)

SeedDb ==
    /\ users = {[username |-> u, email |-> EmailOf(u)] : u \in Users}
    /\ businesses = <<[name |-> "A"], [name |-> "B"]>>
    /\ memberships = SetToBag({MembershipRow("u1", 1, "OWNER"),
                               MembershipRow("u2", 1, "ADMIN"),
                               MembershipRow("u3", 1, "STAFF"),
                               MembershipRow("u2", 2, "OWNER")})
    /\ categories = <<>>
    /\ transactions = <<>>
    /\ submitted = <<>>

SeedReached == SeedDb /\ session = [s \in Sessions |-> NoSession] /\ Idle

\* what a transaction form carries as text: the amount and the details
PlainForm == [amount |-> <<"7">>, details |-> <<>>]
BookForms ==
    {[amount |-> <<"1", ".", "5", "0">>, details |-> <<>>],
     [amount |-> <<" ", "7">>, details |-> <<" ", "x", " ">>],
     [amount |-> <<"a", "b", "c">>, details |-> <<>>]}

NameN == <<"n">>

\* every member of either business at work, one plain form, one date;
\* each submission also names a kind and a creator of its own choosing
LedgerInit ==
    /\ today = MkDate(2024, 12, 31)
    /\ resolved = NoCall
    /\ SeedDb
    /\ session = [s \in Sessions |-> NoSession]
    /\ resp = NoResp
    /\ inflight = NoRequests

LedgerDates == {MkDate(2024, 12, 31), NoDate}

LedgerNext ==
    \/ \E s \in Sessions, u \in Users : login(s, u)
    \/ \E s \in Sessions : custom_logout(s)
    \/ \E s \in Sessions, b \in 1..MaxBusinesses : switch_business(s, b)
    \/ \E s \in Sessions, m \in Methods, b \in 1..MaxBusinesses, k \in {"INCOME", "OTHER"} :
          create_transaction_category(s, m, b, NameN, k)
    \/ \E s \in Sessions, m \in Methods, b \in 1..MaxBusinesses, c \in 1..MaxCategories,
          d \in LedgerDates :
          cash_in_create(s, m, b, c, PlainForm.details, d, PlainForm.amount,
                         [kind |-> "CASH_OUT", created_by |-> "u3"])
    \/ \E s \in Sessions, m \in Methods, b \in 1..MaxBusinesses, c \in 1..MaxCategories,
          d \in LedgerDates :
          cash_out_create(s, m, b, c, PlainForm.details, d, PlainForm.amount,
                          [kind |-> "CASH_IN", created_by |-> "u2"])
    \/ \E s \in Sessions : transactions_list(s, AbsentParam, NoDate, NoDate, "ALL")
    \/ \E s \in Sessions : dashboard(s, AbsentParam, NoDate, NoDate)
    \/ respond

SpecLedger == LedgerInit /\ [][LedgerNext]_vars

\* the owner of business 1 at work, with the texts and dates that matter
BookDays == {MkDate(2024, 12, 31), MkDate(2025, 1, 1)}
BookPeriods == {AbsentParam, "last_month", "custom", ""}
BookBounds == {NoDate, MkDate(2025, 1, 1)}

BooksInit ==
    /\ today \in BookDays
    /\ resolved = NoCall
    /\ SeedDb
    /\ session = [s \in Sessions |-> NoSession]
    /\ resp = NoResp
    /\ inflight = NoRequests

BooksNext ==
    \/ \E s \in Sessions : login(s, "u1")
    \/ \E s \in Sessions : switch_business(s, 1)
    \/ \E s \in Sessions : create_transaction_category(s, "POST", 1, NameN, "INCOME")
    \/ \E s \in Sessions, c \in 1..MaxCategories, f \in BookForms, d \in BookDays :
          cash_in_create(s, "POST", 1, c, f.details, d, f.amount, NoExtra)
    \/ \E s \in Sessions, c \in 1..MaxCategories, f \in BookForms, d \in BookDays :
          cash_out_create(s, "POST", 1, c, f.details, d, f.amount, NoExtra)
    \/ \E s \in Sessions, p \in BookPeriods, from \in BookBounds, to \in BookBounds,
          k \in {"ALL", "CASH_IN", "CASH_OUT"} :
          transactions_list(s, p, from, to, k)
    \/ \E s \in Sessions, p \in BookPeriods, from \in BookBounds, to \in BookBounds :
          dashboard(s, p, from, to)
    \/ \E s \in Sessions, p \in BookPeriods, from \in BookBounds, to \in BookBounds :
          export_excel(s, p, from, to)
    \/ respond

SpecBooks == BooksInit /\ [][BooksNext]_vars

-----------------------------------------------------------------------------
(* Claims about recording, checked under SpecLedger.                       *)

CashOps == {"cash_in_create", "cash_out_create"}

\* the answer of a recording handler that stored the transaction
Recorded(r) ==
    /\ r.status = "redirect" /\ r.to = "transactions_list"
    /\ r.msg \in {"Cash In recorded.", "Cash Out recorded."}

\* the caller's role in the active business, "" when the gate refuses
CallerRole(s) ==
    IF require_membership(s) = "pass"
    THEN RoleOf(session[s].user, session[s].biz_id) ELSE ""

\* C4: a cash-in submission by a STAFF caller is rejected and stores no
\* transaction, a cash-out submission by an ADMIN caller is rejected and
\* stores none; a cash-in is stored only for an OWNER or ADMIN caller and a
\* cash-out only for a STAFF or OWNER caller.
C4_RecordingRoles ==
    [][\A s \in Sessions :
         (Idle /\ resp'.op \in CashOps /\ resp'.sess = s) =>
            /\ (resp'.op = "cash_in_create" /\ CallerRole(s) = "STAFF") =>
                  (transactions' = transactions /\ ~Recorded(resp'))
            /\ (resp'.op = "cash_out_create" /\ CallerRole(s) = "ADMIN") =>
                  (transactions' = transactions /\ ~Recorded(resp'))
            /\ (resp'.op = "cash_in_create"
                  /\ (transactions' # transactions \/ Recorded(resp'))) =>
                  CallerRole(s) \in {"OWNER", "ADMIN"}
            /\ (resp'.op = "cash_out_create"
                  /\ (transactions' # transactions \/ Recorded(resp'))) =>
                  CallerRole(s) \in {"STAFF", "OWNER"}]_vars

\* the STAFF member of business 1, who has recorded a cash-out there, posts
\* a cash-in for that business and is turned away
C4_Witness ==
    /\ resp.op = "cash_in_create" /\ resp.req.method = "POST"
    /\ resp.msg = "You cannot access to this"
    /\ CallerRole(resp.sess) = "STAFF"
    /\ resp.req.business = session[resp.sess].biz_id
    /\ \E i \in TransactionIds :
          /\ transactions[i].created_by = session[resp.sess].user
          /\ transactions[i].kind = "CASH_OUT"

\* C5: for both recording handlers and every role, a submission whose
\* business differs from the business selected in the caller's session is
\* rejected and stores nothing; every transaction stored carries the
\* session's selection and the caller of that moment.
C5_BusinessMatchesSession ==
    [][\A s \in Sessions :
         (Idle /\ resp'.op \in CashOps /\ resp'.sess = s) =>
            /\ (resp'.req.method = "POST"
                  /\ resp'.req.business # session[s].biz_id) =>
                  (transactions' = transactions /\ ~Recorded(resp'))
            /\ transactions' # transactions =>
                  /\ Len(transactions') = Len(transactions) + 1
                  /\ SubSeq(transactions', 1, Len(transactions)) = transactions
                  /\ transactions'[Len(transactions')].business = session[s].biz_id
                  /\ transactions'[Len(transactions')].created_by = session[s].user]_vars

\* a caller entitled to record posts a valid form for the other business
C5_Witness ==
    /\ resp.op \in CashOps /\ resp.status = "forbidden"
    /\ resp.msg = "Wrong business selected."
    /\ resp.req.business \in BusinessIds \ {session[resp.sess].biz_id}
    /\ CallerRole(resp.sess) \in {"OWNER", "ADMIN", "STAFF"}

\* the tiers, in descending privilege
Privilege(role) == IF role = "OWNER" THEN 3 ELSE IF role = "ADMIN" THEN 2 ELSE 1

\* C7: the dashboard's team roster lists every OWNER membership before
\* every ADMIN membership and every ADMIN membership before every STAFF
\* membership.
C7_RosterByPrivilege ==
    (resp.op = "dashboard" /\ resp.status = "page") =>
        \A i, j \in DOMAIN resp.out.team_members :
            i < j => Privilege(resp.out.team_members[i].role)
                        >= Privilege(resp.out.team_members[j].role)

-----------------------------------------------------------------------------
(* Claims about amounts and texts, checked under SpecBooks.                *)

\* the effective range of a request holds the date
RangeHolds(req, dt) ==
    LET from == BoundFrom(req.period, req.date_from)
        to == BoundTo(req.period, req.date_to)
    IN /\ (from = NoDate \/ DateKey(from) <= DateKey(dt))
       /\ (to = NoDate \/ DateKey(dt) <= DateKey(to))

RECURSIVE NumericSum(_)
NumericSum(ids) ==
    IF ids = {} THEN 0
    ELSE LET i == CHOOSE j \in ids : TRUE
         IN (IF IsNumeric(transactions[i].amount)
             THEN Hundredths(transactions[i].amount) ELSE 0)
            + NumericSum(ids \ {i})

InRangeOfKind(req, biz, kind) ==
    {i \in TransactionIds :
        /\ transactions[i].business = biz
        /\ transactions[i].kind = kind
        /\ RangeHolds(req, transactions[i].date)}

\* C6: for any transactions of the active business, the dashboard of an
\* OWNER or ADMIN completes without an error, and total_in (total_out) is
\* the sum of the numeric amounts of the in-range CASH_IN (CASH_OUT)
\* transactions, a non-numeric amount contributing nothing.
C6_TotalsSkipNonNumeric ==
    (resp.op = "dashboard" /\ CallerRole(resp.sess) \in DashboardRoles) =>
        /\ resp.status = "page"
        /\ resp.out.total_in =
              NumericSum(InRangeOfKind(resp.req, session[resp.sess].biz_id, "CASH_IN"))
        /\ resp.out.total_out =
              NumericSum(InRangeOfKind(resp.req, session[resp.sess].biz_id, "CASH_OUT"))

\* x is raw without its leading and trailing whitespace
IsTrimOf(x, raw) ==
    \E i, j \in 0..Len(raw) :
        /\ i + j <= Len(raw)
        /\ x = SubSeq(raw, i + 1, Len(raw) - j)
        /\ \A k \in 1..i : raw[k] \in Whitespace
        /\ \A k \in (Len(raw) - j + 1)..Len(raw) : raw[k] \in Whitespace
        /\ x # <<>> => (x[1] \notin Whitespace /\ x[Len(x)] \notin Whitespace)

\* the cash-ins of the active business a listing request must show
MustShow(r) ==
    {i \in TransactionIds :
        /\ transactions[i].business = session[r.sess].biz_id
        /\ transactions[i].kind = "CASH_IN"
        /\ r.req.kind \in {"ALL", "CASH_IN"}
        /\ RangeHolds(r.req, submitted[i].date)}

Listed(r) == {r.out.transactions[k] : k \in 1..Len(r.out.transactions)}

\* C8, as stated: a cash-in posted with category c, amount a, details d and
\* date t comes back from a later transactions_list of the same business,
\* whose range holds t and whose kind filter is ALL or CASH_IN, as an entry
\* with category c, amount a and details d unchanged.
C8_RoundTripAsPosted ==
    (resp.op = "transactions_list" /\ resp.status = "page") =>
        \A i \in MustShow(resp) :
            \E k \in Listed(resp) :
                /\ transactions[k].category = submitted[i].category
                /\ transactions[k].amount = submitted[i].amount
                /\ transactions[k].details = submitted[i].details

\* C8, amended: the entry is listed with category c, and with amount a and
\* details d less their leading and trailing whitespace.
C8_RoundTripTrimmed ==
    (resp.op = "transactions_list" /\ resp.status = "page") =>
        \A i \in MustShow(resp) :
            /\ i \in Listed(resp)
            /\ transactions[i].category = submitted[i].category
            /\ IsTrimOf(transactions[i].amount, submitted[i].amount)
            /\ IsTrimOf(transactions[i].details, submitted[i].details)

\* a listing shows a cash-in whose posted amount and details carried
\* whitespace
C8_Witness ==
    /\ resp.op = "transactions_list" /\ resp.status = "page"
    /\ \E i \in MustShow(resp) :
          /\ i \in Listed(resp)
          /\ submitted[i].amount # transactions[i].amount
          /\ submitted[i].details # transactions[i].details

-----------------------------------------------------------------------------
(* The office specification: the seeded database with every handler at     *)
(* work, members being added while records are made.                       *)

\* the addresses posted to add_member: of a member of both businesses, of
\* the STAFF member of business 1, and of nobody
OfficeEmails == {EmailOf("u2"), EmailOf("u3"), "e9"}

\* the category names posted: one name, bare and with a trailing blank
OfficeNames == {NameN, <<"n", " ">>}

OfficeNext ==
    \/ \E s \in Sessions, u \in Users : signup(s, "POST", u, EmailOf(u))
    \/ \E s \in Sessions, u \in Users : login(s, u)
    \/ \E s \in Sessions : custom_logout(s)
    \/ \E s \in Sessions, n \in BusinessNames : home(s, "POST", n)
    \/ \E s \in Sessions, b \in 1..MaxBusinesses : switch_business(s, b)
    \/ \E s \in Sessions, e \in OfficeEmails, r \in {"ADMIN", "STAFF"} :
          add_member(s, "POST", e, r)
    \/ \E s \in Sessions, b \in 1..MaxBusinesses, n \in OfficeNames :
          create_transaction_category(s, "POST", b, n, "INCOME")
    \/ \E s \in Sessions, b \in 1..MaxBusinesses :
          cash_in_create(s, "POST", b, 1, PlainForm.details, MkDate(2024, 12, 31),
                         PlainForm.amount, NoExtra)
    \/ \E s \in Sessions, b \in 1..MaxBusinesses :
          cash_out_create(s, "POST", b, 1, PlainForm.details, MkDate(2024, 12, 31),
                          PlainForm.amount, NoExtra)
    \/ \E s \in Sessions : transactions_list(s, AbsentParam, NoDate, NoDate, "ALL")
    \/ \E s \in Sessions : dashboard(s, AbsentParam, NoDate, NoDate)
    \/ \E s \in Sessions : export_excel(s, AbsentParam, NoDate, NoDate)
    \/ \E s \in Sessions : export_pdf(s)
    \/ respond

SpecOffice == LedgerInit /\ [][OfficeNext]_vars

-----------------------------------------------------------------------------
(* Claims about the answers of the gated handlers, checked under           *)
(* SpecOffice. No gated handler changes the session, so the session of a   *)
(* response in flight is the session its request met.                      *)

GatedOps == {"dashboard", "transactions_list", "cash_in_create", "cash_out_create",
             "create_transaction_category", "export_excel", "export_pdf",
             "add_member"}

\* the roles an operation is open to
AllowedRoles(op) ==
    IF op \in {"dashboard", "cash_in_create", "add_member"} THEN {"OWNER", "ADMIN"}
    ELSE IF op = "cash_out_create" THEN {"STAFF", "OWNER"}
    ELSE {"OWNER", "ADMIN", "STAFF"}

NoSelection(s) == session[s].biz_id = 0
NotMember(s) ==
    /\ session[s].biz_id # 0
    /\ \A r \in BagToSet(memberships) :
          ~(r.user = session[s].user /\ r.business = session[s].biz_id)
WrongRole(op, s) ==
    /\ session[s].biz_id # 0
    /\ \E r \in BagToSet(memberships) :
          r.user = session[s].user /\ r.business = session[s].biz_id
    /\ \A r \in BagToSet(memberships) :
          (r.user = session[s].user /\ r.business = session[s].biz_id)
             => r.role \notin AllowedRoles(op)

\* C11, as stated: on every gated handler an authenticated caller with no
\* selected business, no membership in it, or a role outside the allowed
\* set is answered forbidden, never by a redirect; an unauthenticated
\* caller, and only such a caller, is sent to the login flow.
C11_DeniedIsForbidden ==
    resp.op \in GatedOps =>
        LET s == resp.sess IN
        /\ (session[s].user # NoUser
              /\ (NoSelection(s) \/ NotMember(s) \/ WrongRole(resp.op, s)))
             => resp.status = "forbidden"
        /\ session[s].user = NoUser => (resp.status = "login" /\ resp.to = "login")
        /\ resp.status = "login" => session[s].user = NoUser

\* C11, amended: the caller with no selected business or no membership is
\* answered forbidden by every gated handler; the member whose role is
\* outside the allowed set is answered forbidden by cash-out and
\* add-member, and is redirected to the transactions list, with a message,
\* by dashboard and cash-in; an unauthenticated caller, and only such a
\* caller, is sent to the login flow.
C11_DeniedIsRefused ==
    resp.op \in GatedOps =>
        LET s == resp.sess IN
        /\ (session[s].user # NoUser /\ (NoSelection(s) \/ NotMember(s)))
             => resp.status = "forbidden"
        /\ (session[s].user # NoUser /\ WrongRole(resp.op, s)) =>
              IF resp.op \in {"dashboard", "cash_in_create"}
              THEN /\ resp.status = "redirect" /\ resp.to = "transactions_list"
                   /\ resp.msg \in
                        {"You do not have permission to access the dashboard.",
                         "You cannot access to this"}
              ELSE resp.status = "forbidden"
        /\ session[s].user = NoUser => (resp.status = "login" /\ resp.to = "login")
        /\ resp.status = "login" => session[s].user = NoUser

\* the STAFF member of business 1 asks for the dashboard and is redirected
C11_Witness ==
    /\ resp.op = "dashboard" /\ resp.status = "redirect"
    /\ resp.to = "transactions_list"
    /\ session[resp.sess].user # NoUser
    /\ WrongRole("dashboard", resp.sess)

-----------------------------------------------------------------------------
(* Claims about what a request leaves alone, checked under SpecOffice.     *)

\* the request that met session s and was answered r is one the application
\* denies or finds invalid: by its answer, or by what it asked of the state
\* it met
Fails(s, r) ==
    \/ r.status \in {"login", "forbidden", "invalid"}
    \/ /\ r.op \in GatedOps
       /\ \/ session[s].user = NoUser
          \/ NoSelection(s) \/ NotMember(s) \/ WrongRole(r.op, s)
    \/ /\ r.op \in {"cash_in_create", "cash_out_create"}
       /\ r.req.method = "POST"
       /\ r.req.business # session[s].biz_id
    \/ /\ r.op = "add_member"
       /\ r.req.method = "POST"
       /\ \/ \A a \in users : a.email # r.req.email
          \/ \E a \in users, m \in BagToSet(memberships) :
                /\ a.email = r.req.email
                /\ m.user = a.username /\ m.business = session[s].biz_id

\* C12: a request that ends in an authorization denial or a validation
\* failure (wrong role, non-member, no selection, business mismatch, invalid
\* form, unknown e-mail, already-a-member, duplicate business name or
\* category) leaves the businesses, memberships, transaction categories
\* and transactions exactly as they were.
C12_FailuresChangeNothing ==
    [][\A s \in Sessions :
         (Idle /\ resp'.op # "none" /\ resp'.sess = s /\ Fails(s, resp')) =>
            /\ businesses' = businesses
            /\ memberships' = memberships
            /\ categories' = categories
            /\ transactions' = transactions]_vars

\* with a transaction on the books, a category is posted a second time for
\* the same business, name and kind and is found invalid
C12_Witness ==
    /\ resp.op = "create_transaction_category" /\ resp.status = "invalid"
    /\ \E i \in DOMAIN categories :
          /\ categories[i].business = session[resp.sess].biz_id
          /\ categories[i].name = NameN
    /\ transactions # <<>>

-----------------------------------------------------------------------------
(* The race specification: the seeded database, one browser whose requests *)
(* to add_member may be served by two workers side by side.                *)

RaceEmails == {EmailOf("u1"), EmailOf("u3")}
RaceRoles == {"ADMIN", "STAFF"}

RaceNext ==
    \/ \E s \in Sessions : login(s, "u2")
    \/ \E s \in Sessions, b \in 1..MaxBusinesses : switch_business(s, b)
    \/ \E w \in Workers, s \in Sessions, e \in RaceEmails, r \in RaceRoles :
          add_member_check(w, s, e, r)
    \/ \E w \in Workers : add_member_create(w)
    \/ \E w \in Workers : add_member_served(w)
    \/ respond

SpecRace == LedgerInit /\ [][RaceNext]_vars

\* C13: when two add_member requests for the same user and business have
\* both passed the not-already-a-member check before either creates its
\* row, at most one membership row of the pair exists at any time, and the
\* request that creates second ends in the constraint violation
\* (IntegrityError), not in the 'already a member' message, and adds no row.
C13_RaceLosesToConstraint ==
    /\ [](\A u \in Users, b \in 1..MaxBusinesses : RowCount(u, b) <= 1)
    /\ [][\A w \in Workers :
            (/\ inflight[w].stage = "checked"
             /\ inflight'[w].stage = "done"
             /\ \E m \in BagToSet(memberships) :
                   m.user = inflight[w].user /\ m.business = inflight[w].business) =>
               /\ inflight'[w].status = "error"
               /\ inflight'[w].msg = "IntegrityError"
               /\ memberships' = memberships]_vars

\* both workers passed the check for the same pair; one created the row,
\* the other was refused by the constraint; one row exists
C13_Witness ==
    \E w, v \in Workers :
        /\ w # v
        /\ inflight[w].stage = "done" /\ inflight[w].status = "redirect"
        /\ inflight[v].stage = "done" /\ inflight[v].status = "error"
        /\ inflight[v].msg = "IntegrityError"
        /\ inflight[v].user = inflight[w].user
        /\ inflight[v].business = inflight[w].business
        /\ RowCount(inflight[w].user, inflight[w].business) = 1

-----------------------------------------------------------------------------
(* Claims about transaction categories, checked under SpecOffice.          *)

\* C14: every category created by create_transaction_category belongs to
\* the business selected in the caller's session at the time of the
\* request, whatever business the client submits (the other rows stay as
\* they were); and no two categories share business, name and kind.
C14_CategoryOfSessionBusiness ==
    /\ [](\A i, j \in DOMAIN categories :
            (/\ categories[i].business = categories[j].business
             /\ categories[i].name = categories[j].name
             /\ categories[i].kind = categories[j].kind) => i = j)
    /\ [][categories' # categories =>
            /\ resp'.op = "create_transaction_category"
            /\ Len(categories') = Len(categories) + 1
            /\ SubSeq(categories', 1, Len(categories)) = categories
            /\ session[resp'.sess].user # NoUser
            /\ categories'[Len(categories')].business = session[resp'.sess].biz_id]_vars

\* a category was created for the session's business by a request that
\* named the other business
C14_Witness ==
    /\ resp.op = "create_transaction_category" /\ resp.status = "json"
    /\ resp.req.business # session[resp.sess].biz_id
    /\ resp.req.business \in DOMAIN businesses
    /\ categories[resp.out.category_id].business = session[resp.sess].biz_id

-----------------------------------------------------------------------------
(* Claims about the workbook export, checked under SpecBooks.              *)

\* the transactions of a business whose date the effective range of a
\* request holds: what transactions_list shows for these date parameters
InRangeOf(req, biz) ==
    {i \in DOMAIN transactions :
        transactions[i].business = biz /\ RangeHolds(req, transactions[i].date)}

\* C15: for every combination of period, date_from and date_to, one that
\* matches no transaction included, export_excel succeeds; its Transactions
\* sheet holds exactly the transactions of the active business that the
\* listing shows for the same date parameters; its Summary sheet gives,
\* for each kind among them, the numeric total of their amounts.
C15_ExportMatchesListing ==
    (resp.op = "export_excel" /\ require_membership(resp.sess) = "pass") =>
        LET rows == InRangeOf(resp.req, session[resp.sess].biz_id) IN
        /\ resp.status = "file"
        /\ {resp.out.Transactions[k] : k \in DOMAIN resp.out.Transactions} = rows
        /\ Len(resp.out.Transactions) = Cardinality(rows)
        /\ \A kind \in {transactions[i].kind : i \in rows} :
              /\ kind \in DOMAIN resp.out.Summary
              /\ IsNumeric(resp.out.Summary[kind])
              /\ Hundredths(resp.out.Summary[kind]) =
                    NumericSum({i \in rows : transactions[i].kind = kind})

-----------------------------------------------------------------------------
(* Claims about the listing, checked under SpecBooks.                      *)

\* the keyword a request carries, this_month when it carries none
Keyword(req) == IF req.period = "absent" THEN "this_month" ELSE req.period

\* the first and the last day of the month before (y, m)
MonthBefore(y, m) == IF m = 1 THEN [year |-> y - 1, month |-> 12]
                     ELSE [year |-> y, month |-> m - 1]

\* the bounds a keyword stands for on the day of the request; NoDate for
\* no bound
KeywordStart(k) ==
    IF k = "this_month" THEN [year |-> today.year, month |-> today.month, day |-> 1]
    ELSE IF k = "last_month"
         THEN LET p == MonthBefore(today.year, today.month)
              IN [year |-> p.year, month |-> p.month, day |-> 1]
    ELSE IF k = "this_year" THEN [year |-> today.year, month |-> 1, day |-> 1]
    ELSE NoDate

KeywordEnd(k) ==
    IF k = "this_month"
    THEN [year |-> today.year, month |-> today.month,
          day |-> DaysInMonth(today.year, today.month)]
    ELSE IF k = "last_month"
         THEN LET p == MonthBefore(today.year, today.month)
              IN [year |-> p.year, month |-> p.month,
                  day |-> DaysInMonth(p.year, p.month)]
    ELSE IF k = "this_year" THEN [year |-> today.year, month |-> 12, day |-> 31]
    ELSE NoDate

\* the effective range: an explicit bound, else the keyword's
EffectiveFrom(req) ==
    IF req.date_from # NoDate THEN req.date_from ELSE KeywordStart(Keyword(req))
EffectiveTo(req) ==
    IF req.date_to # NoDate THEN req.date_to ELSE KeywordEnd(Keyword(req))

\* day a comes before day b
Earlier(a, b) ==
    \/ a.year < b.year
    \/ a.year = b.year /\ a.month < b.month
    \/ a.year = b.year /\ a.month = b.month /\ a.day < b.day

Expected(req, biz) ==
    {i \in DOMAIN transactions :
        /\ transactions[i].business = biz
        /\ EffectiveFrom(req) # NoDate =>
              ~Earlier(transactions[i].date, EffectiveFrom(req))
        /\ EffectiveTo(req) # NoDate =>
              ~Earlier(EffectiveTo(req), transactions[i].date)
        /\ req.kind \in {"CASH_IN", "CASH_OUT"} => transactions[i].kind = req.kind}

\* C16: transactions_list returns exactly the transactions of the active
\* business whose date lies in the effective range (explicit date_from and
\* date_to, else the bounds of the period keyword, this_month when there is
\* none, no bound for custom or an unrecognized keyword) and whose kind
\* matches a kind filter of CASH_IN or CASH_OUT, each once, ordered by date
\* descending and, among equal dates, by identifier descending.
C16_ListingExact ==
    resp.op = "transactions_list" =>
        /\ require_membership(resp.sess) = "pass" => resp.status = "page"
        /\ resp.status = "page" =>
              LET shown == resp.out.transactions IN
              /\ {shown[k] : k \in DOMAIN shown} =
                    Expected(resp.req, session[resp.sess].biz_id)
              /\ \A k, l \in DOMAIN shown : k < l =>
                    \/ Earlier(transactions[shown[l]].date,
                               transactions[shown[k]].date)
                    \/ /\ transactions[shown[k]].date = transactions[shown[l]].date
                       /\ shown[k] > shown[l]

\* a listing of two transactions in which the one recorded first, dated
\* later, comes first
C16_Witness ==
    /\ resp.op = "transactions_list" /\ resp.status = "page"
    /\ Len(resp.out.transactions) = 2
    /\ resp.out.transactions[1] < resp.out.transactions[2]

-----------------------------------------------------------------------------
(* Claims about the session across a logout, checked under SpecOffice.     *)

\* C17: when a logout request completes the session holds no user and no
\* selected business; a session without a selection is refused by every
\* gated operation (sent to the login flow, or answered forbidden); and a
\* session comes by a selection only through switch_business or the
\* creation of a business, by an authenticated caller who is a member of
\* the business selected.
C17_LogoutClearsSelection ==
    /\ [](\A s \in Sessions :
            (resp.op \in GatedOps /\ resp.sess = s /\ session[s].biz_id = 0)
               => resp.status \in {"login", "forbidden"})
    /\ [][\A s \in Sessions :
            /\ (Idle /\ resp'.op = "custom_logout" /\ resp'.sess = s) =>
                  (session'[s].user = NoUser /\ session'[s].biz_id = 0)
            /\ (session[s].biz_id = 0 /\ session'[s].biz_id # 0) =>
                  /\ resp'.op \in {"switch_business", "home"}
                  /\ session[s].user # NoUser
                  /\ session'[s].user = session[s].user
                  /\ \E m \in BagToSet(memberships') :
                        /\ m.user = session[s].user
                        /\ m.business = session'[s].biz_id]_vars

\* the caller who recorded a transaction, hence had a business selected,
\* has logged out: the session holds neither user nor selection
C17_Witness ==
    /\ resp.op = "custom_logout"
    /\ resp.msg = "You have been successfully logged out."
    /\ session[resp.sess].user = NoUser
    /\ session[resp.sess].biz_id = 0
    /\ transactions # <<>>

-----------------------------------------------------------------------------
(* Claims about the stamping of records, checked under SpecLedger.         *)

\* C19: every transaction stored by cash_in_create has kind CASH_IN, every
\* transaction stored by cash_out_create has kind CASH_OUT, and in both
\* cases created_by is the authenticated caller, whatever kind or creator
\* the submitted data carries; nothing else stores a transaction.
C19_StampedByServer ==
    [][transactions' # transactions =>
         LET t == transactions'[Len(transactions')]
             s == resp'.sess
         IN /\ Idle
            /\ resp'.op \in {"cash_in_create", "cash_out_create"}
            /\ Len(transactions') = Len(transactions) + 1
            /\ resp'.op = "cash_in_create" => t.kind = "CASH_IN"
            /\ resp'.op = "cash_out_create" => t.kind = "CASH_OUT"
            /\ session[s].user # NoUser
            /\ t.created_by = session[s].user]_vars

\* a cash-in was stored from a submission that named the kind CASH_OUT and
\* another account as its creator
C19_Witness ==
    /\ resp.op = "cash_in_create" /\ resp.msg = "Cash In recorded."
    /\ resp.req.extra.kind = "CASH_OUT"
    /\ resp.req.extra.created_by # session[resp.sess].user
    /\ transactions[Len(transactions)].kind = "CASH_IN"
    /\ transactions[Len(transactions)].created_by = session[resp.sess].user

-----------------------------------------------------------------------------
(* Claims about the rows kept, checked under SpecOffice.                   *)

\* C18: no exposed operation modifies or removes a membership or a
\* transaction: every membership row (user, business, role) of a state is a
\* row of the next state, and every transaction of a state is, under the
\* same identifier and with the same field values, a transaction of the
\* next state.
C18_RowsAreKept ==
    [][/\ \A m \in BagToSet(memberships) :
             CopiesIn(m, memberships') >= CopiesIn(m, memberships)
       /\ Len(transactions') >= Len(transactions)
       /\ \A i \in DOMAIN transactions : transactions'[i] = transactions[i]]_vars

\* a member added to business 2 and a transaction recorded before a second
\* one was: rows made by both flows are on the books together
C18_Witness ==
    /\ Len(transactions) = 2
    /\ \E m \in BagToSet(memberships) : m.business = 2 /\ m.role # "OWNER"
    /\ resp.op \in {"cash_in_create", "cash_out_create"}
    /\ resp.status = "redirect" /\ resp.to = "transactions_list"

-----------------------------------------------------------------------------
(* Claims about the dashboard's chart, checked under SpecBooks.            *)

\* the in-range transactions of a kind dated in the month a label names
OfMonth(req, biz, kind, label) ==
    {i \in InRangeOf(req, biz) :
        /\ transactions[i].kind = kind
        /\ transactions[i].date.year * 100 + transactions[i].date.month = label}

\* the chart series of a dashboard page is as the claim describes it
ChartSeriesSums(r) ==
    LET biz == session[r.sess].biz_id
        labels == r.out.labels
    IN /\ \A k, l \in DOMAIN labels : k < l => labels[k] < labels[l]
       /\ Len(r.out.data_in) = Len(labels)
       /\ Len(r.out.data_out) = Len(labels)
       /\ \A k \in DOMAIN labels :
             /\ r.out.data_in[k] = NumericSum(OfMonth(r.req, biz, "CASH_IN", labels[k]))
             /\ r.out.data_out[k] = NumericSum(OfMonth(r.req, biz, "CASH_OUT", labels[k]))

\* C20: the dashboard of an OWNER or ADMIN gives a chart series whose
\* "YYYY-MM" labels are distinct and ascending, whose data_in and data_out
\* are as long as the labels, and whose values are, label by label, the
\* sums of the numeric amounts of the in-range CASH_IN and CASH_OUT
\* transactions of the active business dated in that month, a non-numeric
\* amount being skipped.
C20_ChartSeries ==
    (resp.op = "dashboard" /\ CallerRole(resp.sess) \in {"OWNER", "ADMIN"}) =>
        /\ resp.status = "page"
        /\ ChartSeriesSums(resp)

-----------------------------------------------------------------------------
(* Claims about sessions and owners, checked under Spec.                   *)

\* C21: in every reachable state, a session that has a selected business
\* has an authenticated user, and that user holds a membership in the
\* selected business.
C21_SelectionImpliesMembership ==
    \A s \in Sessions :
        session[s].biz_id # 0 =>
            /\ session[s].user # NoUser
            /\ \E m \in BagToSet(memberships) :
                  m.user = session[s].user /\ m.business = session[s].biz_id

\* a member who did not create the business, added by its owner, has
\* selected it
C21_Witness ==
    \E s \in Sessions :
        /\ session[s].biz_id # 0
        /\ resp.op = "switch_business" /\ resp.status = "redirect"
        /\ \E m \in BagToSet(memberships) :
              /\ m.user = session[s].user /\ m.business = session[s].biz_id
              /\ m.role # "OWNER"

-----------------------------------------------------------------------------
(* Claims about the rows a transaction refers to; C22 is checked under     *)
(* SpecLedger, C23 under SpecOffice.                                       *)

\* C22: after any sequence of cash-in, cash-out and category-creation
\* requests, the category of every stored transaction belongs to the
\* business of the transaction.
C22_CategoryOfSameBusiness ==
    \A i \in DOMAIN transactions :
        categories[transactions[i].category].business = transactions[i].business


\* C23: in every reachable state, the creator of every stored transaction
\* holds a membership in the transaction's business, with role OWNER or
\* ADMIN if the transaction is a CASH_IN and role OWNER or STAFF if it is a
\* CASH_OUT.
C23_CreatorEntitled ==
    \A i \in DOMAIN transactions :
        \E m \in BagToSet(memberships) :
            /\ m.user = transactions[i].created_by
            /\ m.business = transactions[i].business
            /\ transactions[i].kind = "CASH_IN" => m.role \in {"OWNER", "ADMIN"}
            /\ transactions[i].kind = "CASH_OUT" => m.role \in {"OWNER", "STAFF"}

\* a cash-in recorded by an ADMIN and a cash-out recorded by a STAFF member
\* are on the books
C23_Witness ==
    \E i, j \in DOMAIN transactions :
        /\ transactions[i].kind = "CASH_IN" /\ transactions[j].kind = "CASH_OUT"
        /\ \E m \in BagToSet(memberships) :
              /\ m.user = transactions[i].created_by
              /\ m.business = transactions[i].business /\ m.role = "ADMIN"
        /\ \E m \in BagToSet(memberships) :
              /\ m.user = transactions[j].created_by
              /\ m.business = transactions[j].business /\ m.role = "STAFF"

-----------------------------------------------------------------------------
(* The owner of a business, checked under Spec. Business has no field for  *)
(* its creator, so the creator is read off the step that adds the row: the *)
(* user of the session whose home request was served.                      *)

\* the users who hold an OWNER row of business b in the table ms
OwnersIn(ms, b) ==
    {m.user : m \in {r \in BagToSet(ms) : r.business = b /\ r.role = "OWNER"}}

\* C24: after any sequence of completed business-creation and add-member
\* requests, every business has exactly one membership with role OWNER,
\* namely that of the user who created the business: every business has
\* one OWNER row at all times, a business appears only in a home step whose
\* caller becomes its one owner, and no step changes who owns a business
\* that is already there.
C24_OneOwner ==
    /\ [](\A b \in BusinessIds :
            \E u \in Users :
                /\ OwnersIn(memberships, b) = {u}
                /\ CopiesIn(MembershipRow(u, b, "OWNER"), memberships) = 1)
    /\ [][/\ Len(businesses') # Len(businesses) =>
                /\ Len(businesses') = Len(businesses) + 1
                /\ resp'.op = "home"
                /\ OwnersIn(memberships', Len(businesses')) =
                       {session[resp'.sess].user}
           /\ \A b \in BusinessIds :
                 OwnersIn(memberships', b) = OwnersIn(memberships, b)]_vars

\* an add-member request has just been completed in a business that now has
\* two members or more, after a second business was created
C24_Witness ==
    /\ resp.op = "add_member" /\ resp.status = "redirect"
    /\ Len(businesses) = 2
    /\ \E b \in BusinessIds :
          /\ Cardinality({m \in BagToSet(memberships) : m.business = b}) >= 2
          /\ Cardinality(OwnersIn(memberships, b)) = 1

====
